---- MODULE Spec2Model ----
(***************************************************************************)
(* A model of restock_checker.py: the change-detection and notification    *)
(* pipeline of run() (load seen items, fetch every store through a thread  *)
(* pool, filter, deduplicate, send one batched webhook POST under a        *)
(* cooldown, save the seen items), over the two files the script keeps     *)
(* (seen_items.txt, last_sent.txt).                                        *)
(*                                                                         *)
(* Text is modelled character by character: a Python str is a sequence of  *)
(* one-character strings, so that lower(), strip(), "k in n", the line     *)
(* format of the seen-items file and its parsing are computed as the code  *)
(* computes them.                                                          *)
(***************************************************************************)
EXTENDS Integers, Sequences, FiniteSets, TLC

(***************************************************************************)
(* Bounds of the model.                                                    *)
(***************************************************************************)
\* elements on the pages served to one run of run() in Spec
MaxTiles == 2
\* clock ticks (of TickSeconds each) that may pass in a behaviour
MaxTicks == 2
\* vocabulary words concatenated into one element text in SpecFilter
MaxWords == 3

(***************************************************************************)
(* Program constants.                                                      *)
(***************************************************************************)
DEFAULT_RADIUS_MILES == 30
DISCORD_COOLDOWN_SECONDS == 1800
max_workers == 5
\* notifications[:50]
EmbedLimit == 50
\* seconds per clock tick: half a cooldown, so that a run can fall inside
\* the cooldown window, at its end, or after it
TickSeconds == DISCORD_COOLDOWN_SECONDS \div 2

(***************************************************************************)
(* Strings.                                                                *)
(***************************************************************************)
UpperCase ==
  <<"A", "B", "C", "D", "E", "F", "G", "H", "I", "J", "K", "L", "M",
    "N", "O", "P", "Q", "R", "S", "T", "U", "V", "W", "X", "Y", "Z">>

LowerCase ==
  <<"a", "b", "c", "d", "e", "f", "g", "h", "i", "j", "k", "l", "m",
    "n", "o", "p", "q", "r", "s", "t", "u", "v", "w", "x", "y", "z">>

\* the characters of the model in code-point order (sorted() compares by it)
CodePoints ==
  <<"\t", "\n", " ", "&", "'", ":">> \o UpperCase \o LowerCase

Chars == {CodePoints[i] : i \in 1..Len(CodePoints)}

\* ord(c), up to the order it induces
Ord == [c \in Chars |-> CHOOSE i \in 1..Len(CodePoints) : CodePoints[i] = c]

\* str.lower() on one character
LowerChar ==
  [c \in Chars |->
     IF \E i \in 1..26 : UpperCase[i] = c
     THEN LowerCase[CHOOSE i \in 1..26 : UpperCase[i] = c]
     ELSE c]

\* str.lower()
Lower(s) == [i \in 1..Len(s) |-> LowerChar[s[i]]]

\* the characters str.strip() removes (those of the model's alphabet)
Whitespace == {" ", "\t", "\n"}

RECURSIVE LStrip(_)
LStrip(s) ==
  IF s = <<>> THEN s
  ELSE IF Head(s) \in Whitespace THEN LStrip(Tail(s)) ELSE s

RECURSIVE RStrip(_)
RStrip(s) ==
  IF s = <<>> THEN s
  ELSE IF s[Len(s)] \in Whitespace THEN RStrip(SubSeq(s, 1, Len(s) - 1)) ELSE s

\* str.strip()
Strip(s) == RStrip(LStrip(s))

\* Python's "k in n" on strings
Contains(k, n) ==
  \E i \in 1..(Len(n) - Len(k) + 1) : \A j \in 1..Len(k) : n[i + j - 1] = k[j]

\* Python's < on strings: lexicographic by code point
RECURSIVE StrLess(_, _)
StrLess(a, b) ==
  IF b = <<>> THEN FALSE
  ELSE IF a = <<>> THEN TRUE
  ELSE IF Head(a) # Head(b) THEN Ord[Head(a)] < Ord[Head(b)]
  ELSE StrLess(Tail(a), Tail(b))

\* sorted(items) for a set of strings
RECURSIVE Sorted(_)
Sorted(S) ==
  IF S = {} THEN <<>>
  ELSE LET m == CHOOSE x \in S : \A y \in S \ {x} : StrLess(x, y)
       IN <<m>> \o Sorted(S \ {m})

RECURSIVE Concat(_)
Concat(ss) == IF ss = <<>> THEN <<>> ELSE Head(ss) \o Concat(Tail(ss))

(***************************************************************************)
(* Keywords.                                                               *)
(***************************************************************************)
SEALED_KEYWORDS == {
  <<"b", "o", "o", "s", "t", "e", "r">>,
  <<"e", "l", "i", "t", "e", " ", "t", "r", "a", "i", "n", "e", "r", " ", "b", "o", "x">>,
  <<"e", "t", "b">>,
  <<"t", "i", "n">>,
  <<"c", "o", "l", "l", "e", "c", "t", "i", "o", "n">>,
  <<"b", "l", "i", "s", "t", "e", "r">>,
  <<"t", "r", "a", "d", "i", "n", "g", " ", "c", "a", "r", "d">> }

IGNORE_KEYWORDS == {
  <<"s", "i", "n", "g", "l", "e">>,
  <<"g", "u", "i", "d", "e">>,
  <<"b", "o", "o", "k">>,
  <<"m", "a", "g", "a", "z", "i", "n", "e">>,
  <<"p", "r", "o", "x", "y">> }

OutOfStockPhrases == {
  <<"o", "u", "t", " ", "o", "f", " ", "s", "t", "o", "c", "k">>,
  <<"s", "o", "l", "d", " ", "o", "u", "t">>,
  <<"u", "n", "a", "v", "a", "i", "l", "a", "b", "l", "e">>,
  <<"n", "o", " ", "l", "o", "n", "g", "e", "r", " ", "a", "v", "a", "i", "l", "a", "b", "l", "e">> }

Pokemon == <<"p", "o", "k", "e", "m", "o", "n">>

(***************************************************************************)
(* Helpers.                                                                *)
(***************************************************************************)
\* is_sealed without the IGNORE_KEYWORDS test
is_sealed_no_ignore(name) ==
  LET n == Lower(name)
  IN \E k \in SEALED_KEYWORDS : Contains(k, n)

is_sealed(name) ==
  LET n == Lower(name)
  IN /\ \E k \in SEALED_KEYWORDS : Contains(k, n)
     /\ ~ \E i \in IGNORE_KEYWORDS : Contains(i, n)

looks_in_stock(text) ==
  LET t == Lower(text)
  IN ~ \E x \in OutOfStockPhrases : Contains(x, t)

(***************************************************************************)
(* The store registry.                                                     *)
(***************************************************************************)
StoreOrder ==
  <<"Smyths Toys", "The Entertainer", "One Stop", "WHSmith",
    "Forbidden Planet", "Waterstones", "CEX",
    "Amazon UK", "eBay UK", "ASDA", "Tesco", "Morrisons", "Sainsbury's",
    "Aldi", "B&M">>

Stores == {StoreOrder[i] : i \in 1..Len(StoreOrder)}

\* the store's name as a str
StoreChars(s) ==
  CASE s = "Smyths Toys" -> <<"S", "m", "y", "t", "h", "s", " ", "T", "o", "y", "s">>
    [] s = "The Entertainer" -> <<"T", "h", "e", " ", "E", "n", "t", "e", "r", "t", "a", "i", "n", "e", "r">>
    [] s = "One Stop" -> <<"O", "n", "e", " ", "S", "t", "o", "p">>
    [] s = "WHSmith" -> <<"W", "H", "S", "m", "i", "t", "h">>
    [] s = "Forbidden Planet" -> <<"F", "o", "r", "b", "i", "d", "d", "e", "n", " ", "P", "l", "a", "n", "e", "t">>
    [] s = "Waterstones" -> <<"W", "a", "t", "e", "r", "s", "t", "o", "n", "e", "s">>
    [] s = "CEX" -> <<"C", "E", "X">>
    [] s = "Amazon UK" -> <<"A", "m", "a", "z", "o", "n", " ", "U", "K">>
    [] s = "eBay UK" -> <<"e", "B", "a", "y", " ", "U", "K">>
    [] s = "ASDA" -> <<"A", "S", "D", "A">>
    [] s = "Tesco" -> <<"T", "e", "s", "c", "o">>
    [] s = "Morrisons" -> <<"M", "o", "r", "r", "i", "s", "o", "n", "s">>
    [] s = "Sainsbury's" -> <<"S", "a", "i", "n", "s", "b", "u", "r", "y", "'", "s">>
    [] s = "Aldi" -> <<"A", "l", "d", "i">>
    [] s = "B&M" -> <<"B", "&", "M">>

\* cfg["online"]
Online(s) ==
  s \in {"Amazon UK", "eBay UK", "ASDA", "Tesco", "Morrisons", "Sainsbury's",
         "Aldi", "B&M"}

\* cfg.get("radius", DEFAULT_RADIUS_MILES)
Radius(s) == IF s = "Smyths Toys" THEN 25 ELSE DEFAULT_RADIUS_MILES

\* geodesic(USER_COORD, cfg["coord"]).miles, rounded up to whole miles
Miles(s) ==
  CASE s = "Smyths Toys" -> 9
    [] s = "The Entertainer" -> 8
    [] s = "WHSmith" -> 8
    [] OTHER -> 0

within_distance(s) == Miles(s) <= Radius(s)

\* cfg["parser"]
ParserOf(s) ==
  CASE s = "Smyths Toys" -> "parse_smyths"
    [] s = "The Entertainer" -> "parse_entertainer"
    [] s = "One Stop" -> "parse_onestop"
    [] s = "WHSmith" -> "parse_whsmith"
    [] s = "Forbidden Planet" -> "parse_forbidden_planet"
    [] s = "Waterstones" -> "parse_waterstones"
    [] s = "CEX" -> "parse_cex"
    [] OTHER -> "generic_parser"

(***************************************************************************)
(* Pages and parsers.                                                      *)
(*                                                                         *)
(* A page is the sequence of the elements the store's selector matches.    *)
(* An element carries its text (one text node, so .text.strip() and        *)
(* get_text(strip=True) agree on it) and whether its link has an href.     *)
(* A product is its name; price and link only decorate the embed text.     *)
(* A parser's outcome is either an exception or the products it returns.   *)
(***************************************************************************)
Returned(products) == [raised |-> FALSE, products |-> products]

Raised == [raised |-> TRUE, products |-> <<>>]

ElementName(el) == Strip(el.text)

RECURSIVE ProductsOf(_)
ProductsOf(els) ==
  IF els = <<>> THEN <<>>
  ELSE <<[name |-> ElementName(Head(els))]>> \o ProductsOf(Tail(els))

\* tiles without a link element are skipped
parse_smyths(page) ==
  Returned(ProductsOf(SelectSeq(page,
    LAMBDA el : el.href /\ is_sealed(ElementName(el)))))

\* name_el["href"] raises KeyError for a sealed item whose anchor has no href
parse_entertainer(page) ==
  IF \E i \in 1..Len(page) : is_sealed(ElementName(page[i])) /\ ~page[i].href
  THEN Raised
  ELSE Returned(ProductsOf(SelectSeq(page,
         LAMBDA el : is_sealed(ElementName(el)))))

parse_onestop(page) ==
  Returned(ProductsOf(SelectSeq(page,
    LAMBDA el : /\ ElementName(el) # <<>>
                /\ el.href
                /\ Contains(Pokemon, Lower(ElementName(el)))
                /\ is_sealed(ElementName(el)))))

parse_whsmith(page) ==
  Returned(ProductsOf(SelectSeq(page, LAMBDA el : is_sealed(ElementName(el)))))

parse_forbidden_planet(page) ==
  Returned(ProductsOf(SelectSeq(page, LAMBDA el : is_sealed(ElementName(el)))))

parse_waterstones(page) ==
  Returned(ProductsOf(SelectSeq(page, LAMBDA el : is_sealed(ElementName(el)))))

parse_cex(page) ==
  Returned(ProductsOf(SelectSeq(page, LAMBDA el : is_sealed(ElementName(el)))))

generic_parser(page) ==
  Returned(ProductsOf(SelectSeq(page,
    LAMBDA el : /\ ElementName(el) # <<>>
                /\ Contains(Pokemon, Lower(ElementName(el)))
                /\ is_sealed(ElementName(el)))))

\* what the web serves for one store's url: get_soup raises (fail), or the page
Failure == [fail |-> TRUE, page |-> <<>>]

Served(page) == [fail |-> FALSE, page |-> page]

\* cfg["parser"](cfg["url"]): get_soup, then the store's parser
CallParser(s, input) ==
  LET parser == ParserOf(s)
  IN IF input.fail THEN Raised
     ELSE CASE parser = "parse_smyths" -> parse_smyths(input.page)
            [] parser = "parse_entertainer" -> parse_entertainer(input.page)
            [] parser = "parse_onestop" -> parse_onestop(input.page)
            [] parser = "parse_whsmith" -> parse_whsmith(input.page)
            [] parser = "parse_forbidden_planet" -> parse_forbidden_planet(input.page)
            [] parser = "parse_waterstones" -> parse_waterstones(input.page)
            [] parser = "parse_cex" -> parse_cex(input.page)
            [] OTHER -> generic_parser(input.page)

safe_parse(s, input) ==
  LET out == CallParser(s, input)
  IN IF out.raised THEN Returned(<<>>) ELSE out

\* fetch_store without try/except at either level: an exception reaches
\* the caller
fetch_store_unguarded(s, input) ==
  IF ~Online(s) /\ ~within_distance(s) THEN Returned(<<>>)
  ELSE CallParser(s, input)

fetch_store(s, input) ==
  LET out == IF ~Online(s) /\ ~within_distance(s) THEN Returned(<<>>)
             ELSE safe_parse(s, input)
  IN IF out.raised THEN Returned(<<>>) ELSE out

(***************************************************************************)
(* The seen-items file and the last-sent file.                             *)
(***************************************************************************)
NoFile == [exists |-> FALSE, text |-> <<>>]

FileOf(text) == [exists |-> TRUE, text |-> text]

\* the lines a text file yields when iterated
RECURSIVE Lines(_)
Lines(text) ==
  IF text = <<>> THEN <<>>
  ELSE IF \E i \in 1..Len(text) : text[i] = "\n"
       THEN LET i == CHOOSE j \in 1..Len(text) :
                       /\ text[j] = "\n"
                       /\ \A k \in 1..(j - 1) : text[k] # "\n"
            IN <<SubSeq(text, 1, i)>> \o Lines(SubSeq(text, i + 1, Len(text)))
       ELSE <<text>>

load_seen_items(file) ==
  IF ~file.exists THEN {}
  ELSE LET lines == Lines(file.text)
       IN {Strip(lines[i]) : i \in 1..Len(lines)}

RECURSIVE WriteLines(_)
WriteLines(items) ==
  IF items = <<>> THEN <<>>
  ELSE Head(items) \o <<"\n">> \o WriteLines(Tail(items))

\* a save that forgets the line terminator
save_without_newlines(items) == FileOf(Concat(Sorted(items)))

save_seen_items(items) == FileOf(WriteLines(Sorted(items)))

Digit == <<"0", "1", "2", "3", "4", "5", "6", "7", "8", "9">>

RECURSIVE Digits(_)
Digits(n) ==
  IF n < 10 THEN <<Digit[n + 1]>>
  ELSE Digits(n \div 10) \o <<Digit[(n % 10) + 1]>>

\* str(time.time()) for a whole number of seconds
FormatTime(t) == Digits(t) \o <<".", "0">>

IsDigit(c) == \E d \in 1..10 : Digit[d] = c

DigitValue(c) == (CHOOSE d \in 1..10 : Digit[d] = c) - 1

RECURSIVE NumberOf(_)
NumberOf(ds) ==
  IF ds = <<>> THEN 0
  ELSE 10 * NumberOf(SubSeq(ds, 1, Len(ds) - 1)) + DigitValue(ds[Len(ds)])

\* float(text.strip()): ok is FALSE where float() raises ValueError; the
\* value is the whole seconds
ParseFloat(text) ==
  LET s == Strip(text)
      dots == {i \in 1..Len(s) : s[i] = "."}
      whole == IF dots = {} THEN s
               ELSE SubSeq(s, 1, (CHOOSE i \in dots : TRUE) - 1)
      ok == /\ s # <<>>
            /\ \A i \in 1..Len(s) : IsDigit(s[i]) \/ s[i] = "."
            /\ Cardinality(dots) <= 1
            /\ \E i \in 1..Len(s) : IsDigit(s[i])
  IN [ok |-> ok, value |-> IF ok THEN NumberOf(whole) ELSE 0]

\* can_send_discord() at time now: "yes", "no", or "raise"
can_send_discord(file, now) ==
  IF ~file.exists THEN "yes"
  ELSE IF ~ParseFloat(file.text).ok THEN "raise"
  ELSE IF now - ParseFloat(file.text).value >= DISCORD_COOLDOWN_SECONDS
       THEN "yes" ELSE "no"

(***************************************************************************)
(* The dedup loop of run().                                                *)
(***************************************************************************)
Uid(store, name) == StoreChars(store) \o <<":">> \o name

\* the (store, product) pairs the loop appends for one store's products
RECURSIVE NewOf(_, _, _)
NewOf(store, products, seen) ==
  IF products = <<>> THEN <<>>
  ELSE LET p == Head(products)
           rest == NewOf(store, Tail(products), seen)
       IN IF ~looks_in_stock(p.name) THEN rest
          ELSE IF Uid(store, p.name) \in seen THEN rest
          ELSE <<[store |-> store, name |-> p.name]>> \o rest

\* the notifications list after the loop over results, in registry order
RECURSIVE NotificationsFrom(_, _, _)
NotificationsFrom(i, res, seen) ==
  IF i > Len(StoreOrder) THEN <<>>
  ELSE NewOf(StoreOrder[i], res[StoreOrder[i]].products, seen)
         \o NotificationsFrom(i + 1, res, seen)

UidsOf(notes) == {Uid(notes[i].store, notes[i].name) : i \in 1..Len(notes)}

\* the items rendered into the embeds, and the count of the summary embed
Embeds(notes) ==
  [total |-> Len(notes),
   items |-> SubSeq(notes, 1, IF Len(notes) < EmbedLimit THEN Len(notes) ELSE EmbedLimit)]

(***************************************************************************)
(* State.                                                                  *)
(***************************************************************************)
VARIABLES
  pc,            \* where the current run of run() is
  clock,         \* time.time(), in seconds
  seenFile,      \* seen_items.txt
  lastSentFile,  \* last_sent.txt
  web,           \* what each store's url serves during the current run
  seen_items,    \* run(): the set loaded at the start of the run
  updated_seen,  \* run(): the set saved at the end of the run
  results,       \* run(): store -> outcome of fetch_store
  notifications, \* run(): the list of (store, product) to notify
  sendStatus,    \* how the send step of the current run ended
  writes,        \* writes of seen_items.txt by the current run
  posts,         \* the clock at the latest webhook POST, preceded within a run
                 \* that issued one by the clock at the POST before it
  payload,       \* the embeds of the latest webhook POST of the current run
  saved,         \* uids in updated_seen at the save of a completed run
  suppressed,    \* uids first found by a completed run whose POST the cooldown suppressed
  queue,         \* thread pool: registry positions not yet taken by a worker
  running,       \* thread pool: stores whose fetch_store call is in progress
  jar            \* SESSION.cookies: the stores whose worker stored a cookie in it

vars ==
  <<pc, clock, seenFile, lastSentFile, web, seen_items, updated_seen,
    results, notifications, sendStatus, writes, posts, payload, saved,
    suppressed, queue, running, jar>>

poolVars == <<queue, running, jar>>

fileVars == <<seenFile, lastSentFile>>

historyVars == <<posts, saved, suppressed>>

SeqsUpTo(S, n) == UNION {[1..k -> S] : k \in 0..n}

NoResults == [s \in Stores |-> Returned(<<>>)]

NoPayload == [total |-> 0, items |-> <<>>]

\* the POST times kept once a POST is issued at time now: that of the
\* POST before it, and now
Posted(times, now) ==
  IF times = <<>> THEN <<now>> ELSE <<times[Len(times)], now>>

\* the POST time kept from one run to the next: the latest
LatestOf(times) ==
  IF times = <<>> THEN <<>> ELSE <<times[Len(times)]>>

QuietWeb == [s \in Stores |-> Served(<<>>)]

(***************************************************************************)
(* The inputs of Spec: two stores serve pages (or fail), every other store *)
(* serves a page without matching elements.                                *)
(***************************************************************************)
\* " Pokemon ETB "
TextEtb == <<" ", "P", "o", "k", "e", "m", "o", "n", " ", "E", "T", "B", " ">>

\* "Pokemon\nTin": an element whose text wraps over two lines
TextWrapped == <<"P", "o", "k", "e", "m", "o", "n", "\n", "T", "i", "n">>

LiveStores == {"Smyths Toys", "Amazon UK"}

\* the element texts a live store's page may hold
StoreTexts(s) ==
  IF s = "Smyths Toys" THEN {TextEtb, TextWrapped} ELSE {TextEtb}

RunInputs(s) ==
  {Failure} \cup
  {Served(p) :
     p \in SeqsUpTo({[text |-> t, href |-> TRUE] : t \in StoreTexts(s)}, MaxTiles)}

RECURSIVE TilesOf(_, _)
TilesOf(w, i) ==
  IF i > Len(StoreOrder) THEN 0
  ELSE Len(w[StoreOrder[i]].page) + TilesOf(w, i + 1)

\* the pages of one run hold at most MaxTiles elements in all
RunWebs ==
  {w \in {[s \in Stores |-> IF s \in LiveStores THEN v[s] ELSE Served(<<>>)] :
             v \in [LiveStores -> UNION {RunInputs(s) : s \in LiveStores}]} :
     /\ \A s \in LiveStores : w[s] \in RunInputs(s)
     /\ TilesOf(w, 1) <= MaxTiles}

(***************************************************************************)
(* run()                                                                   *)
(***************************************************************************)
Init ==
  /\ pc = "idle"
  /\ clock = 0
  /\ seenFile = NoFile
  \* last_sent.txt is absent, or present and empty (what open(..., "w")
  \* leaves when the process dies before the write)
  /\ lastSentFile \in {NoFile, FileOf(<<>>)}
  /\ web = QuietWeb
  /\ seen_items = {}
  /\ updated_seen = {}
  /\ results = NoResults
  /\ notifications = <<>>
  /\ sendStatus = "none"
  /\ writes = 0
  /\ posts = <<>>
  /\ payload = NoPayload
  /\ saved = {}
  /\ suppressed = {}
  /\ queue = <<>>
  /\ running = {}
  /\ jar = {}

\* time passes between runs and while the webhook request is under way; the
\* clock is read only by can_send_discord and mark_discord_sent, and the
\* first run starts at clock 0
Tick ==
  /\ pc \in {"done", "aborted", "mark"}
  /\ clock < MaxTicks * TickSeconds
  /\ clock' = clock + TickSeconds
  /\ UNCHANGED <<pc, seenFile, lastSentFile, web, seen_items,
                 updated_seen, results, notifications, sendStatus, writes,
                 posts, payload, saved, suppressed, queue, running, jar>>

\* the process ends, by run() returning or by the exception it raised, and
\* its memory is gone; the two files and the webhook's history stay
Exit ==
  /\ pc \in {"done", "aborted"}
  /\ pc' = "idle"
  /\ web' = QuietWeb
  /\ seen_items' = {}
  /\ updated_seen' = {}
  /\ results' = NoResults
  /\ notifications' = <<>>
  /\ sendStatus' = "none"
  /\ writes' = 0
  /\ payload' = NoPayload
  /\ posts' = LatestOf(posts)
  /\ queue' = <<>>
  /\ running' = {}
  /\ jar' = {}
  /\ UNCHANGED <<clock, fileVars, saved, suppressed>>

\* a new process: load_seen_items(), updated_seen = set(seen_items)
StartRun(webs) ==
  /\ pc = "idle"
  /\ web' \in webs
  /\ seen_items' = load_seen_items(seenFile)
  /\ updated_seen' = seen_items'
  /\ queue' = StoreOrder
  /\ pc' = "fetch"
  /\ UNCHANGED <<clock, fileVars, results, notifications, sendStatus, writes,
                 payload, historyVars, running, jar>>

\* the whole of executor.map(fetch_store, STORES.items()): what it yields
\* depends on the pages alone, not on how the workers interleave
FetchAll ==
  /\ pc = "fetch"
  /\ results' = [s \in Stores |-> fetch_store(s, web[s])]
  /\ queue' = <<>>
  /\ pc' = "collect"
  /\ UNCHANGED <<clock, fileVars, web, seen_items, updated_seen,
                 notifications, sendStatus, writes, payload, historyVars,
                 running, jar>>

\* "for store, products in results": an exception of a worker is raised
\* again here; otherwise the dedup loop runs
Collect ==
  /\ pc = "collect"
  /\ IF \E s \in Stores : results[s].raised
     THEN /\ pc' = "aborted"
          /\ UNCHANGED <<notifications, updated_seen, sendStatus>>
     ELSE LET notes == NotificationsFrom(1, results, seen_items)
          IN /\ notifications' = notes
             /\ updated_seen' = updated_seen \cup UidsOf(notes)
             /\ pc' = IF notes # <<>> THEN "send" ELSE "save"
             /\ sendStatus' = IF notes # <<>> THEN "none" ELSE "omitted"
  /\ UNCHANGED <<clock, fileVars, web, seen_items, results, writes,
                 payload, historyVars, poolVars>>

\* send_discord_embeds: can_send_discord()
CheckCooldown ==
  /\ pc = "send"
  /\ LET can == can_send_discord(lastSentFile, clock)
     IN /\ pc' = CASE can = "yes" -> "post"
                   [] can = "no" -> "save"
                   [] OTHER -> "aborted"
        /\ sendStatus' = CASE can = "yes" -> "none"
                           [] can = "no" -> "suppressed"
                           [] OTHER -> "raised"
  /\ UNCHANGED <<clock, fileVars, web, seen_items, updated_seen,
                 results, notifications, writes, payload, historyVars,
                 poolVars>>

\* requests.post returns (whatever the response's status)
PostReturns ==
  /\ pc = "post"
  /\ posts' = Posted(posts, clock)
  /\ payload' = Embeds(notifications)
  /\ pc' = "mark"
  /\ UNCHANGED <<clock, fileVars, web, seen_items, updated_seen,
                 results, notifications, sendStatus, writes, saved,
                 suppressed, poolVars>>

\* PostRaises with the exception of requests.post caught and dropped
PostRaisesSwallowed ==
  /\ pc = "post"
  /\ \E delivered \in BOOLEAN :
       /\ posts' = IF delivered THEN Posted(posts, clock) ELSE posts
       /\ payload' = IF delivered THEN Embeds(notifications) ELSE payload
  /\ sendStatus' = "raised"
  /\ pc' = "save"
  /\ UNCHANGED <<clock, fileVars, web, seen_items, updated_seen,
                 results, notifications, writes, saved, suppressed, poolVars>>

\* requests.post raises: before the request went out (a connection error),
\* or after the webhook received it (a read timeout); nothing in run()
\* catches it
PostRaises ==
  /\ pc = "post"
  /\ \E delivered \in BOOLEAN :
       /\ posts' = IF delivered THEN Posted(posts, clock) ELSE posts
       /\ payload' = IF delivered THEN Embeds(notifications) ELSE payload
  /\ sendStatus' = "raised"
  /\ pc' = "aborted"
  /\ UNCHANGED <<clock, fileVars, web, seen_items, updated_seen,
                 results, notifications, writes, saved, suppressed, poolVars>>

\* mark_discord_sent(), then send_discord_embeds returns
MarkSent ==
  /\ pc = "mark"
  /\ lastSentFile' = FileOf(FormatTime(clock))
  /\ sendStatus' = "sent"
  /\ pc' = "save"
  /\ UNCHANGED <<clock, seenFile, web, seen_items, updated_seen,
                 results, notifications, writes, payload, historyVars,
                 poolVars>>

\* save_seen_items(updated_seen), and run() returns
Save ==
  /\ pc = "save"
  /\ seenFile' = save_seen_items(updated_seen)
  /\ writes' = writes + 1
  /\ saved' = saved \cup updated_seen
  /\ suppressed' = IF sendStatus = "suppressed"
                   THEN suppressed \cup UidsOf(notifications)
                   ELSE suppressed
  /\ pc' = "done"
  /\ UNCHANGED <<clock, lastSentFile, web, seen_items, updated_seen,
                 results, notifications, sendStatus, payload, posts,
                 poolVars>>

Next ==
  \/ Tick
  \/ Exit
  \/ StartRun(RunWebs)
  \/ FetchAll
  \/ Collect
  \/ CheckCooldown
  \/ PostReturns
  \/ PostRaises
  \/ MarkSent
  \/ Save

Spec == Init /\ [][Next]_vars

(***************************************************************************)
(* SpecFilter: one run over one store's page of one element, the element's *)
(* text drawn from every concatenation of up to MaxWords vocabulary words. *)
(***************************************************************************)
Vocabulary == {
  <<"P", "o", "k", "e", "m", "o", "n", " ">>,
  <<"E", "T", "B">>,
  <<"b", "o", "o", "k">>,
  <<"S", "o", "l", "d", " ", "O", "u", "t">> }

FilterTexts == {Concat(ws) : ws \in SeqsUpTo(Vocabulary, MaxWords) \ {<<>>}}

FilterWebs ==
  {[s \in Stores |-> IF s = live THEN Served(<<[text |-> t, href |-> h]>>)
                     ELSE Served(<<>>)] :
     live \in Stores, t \in FilterTexts, h \in BOOLEAN}

StartFilterRun == StartRun(FilterWebs)

NextFilter ==
  \/ StartFilterRun
  \/ FetchAll
  \/ Collect

SpecFilter == Init /\ [][NextFilter]_vars

(***************************************************************************)
(* SpecPool: the fetch phase of one run, worker by worker.                 *)
(*                                                                         *)
(* ThreadPoolExecutor(max_workers=5).map submits the 15 registry entries   *)
(* in order; a work item is taken while fewer than max_workers calls are   *)
(* in progress.  Every worker goes through the one module-level SESSION:   *)
(* its request reads SESSION.cookies, and a response that sets a cookie    *)
(* stores it there.                                                        *)
(***************************************************************************)
PoolWebs ==
  {[s \in Stores |-> IF s \in LiveStores
                     THEN Served(<<[text |-> TextEtb, href |-> TRUE]>>)
                     ELSE Served(<<>>)]}

StartPoolRun == StartRun(PoolWebs)

\* the stores whose worker has called SESSION.get
SessionUsers == Stores \ {queue[i] : i \in 1..Len(queue)}

\* a pool that starts a thread for every work item
WorkerTakeUnbounded ==
  /\ pc = "fetch"
  /\ queue # <<>>
  /\ running' = running \cup {Head(queue)}
  /\ queue' = Tail(queue)
  /\ UNCHANGED <<pc, clock, fileVars, web, seen_items, updated_seen,
                 results, notifications, sendStatus, writes, payload,
                 historyVars, jar>>

\* a worker thread takes the next work item and calls fetch_store, which
\* sends its request through SESSION
WorkerTake ==
  /\ pc = "fetch"
  /\ queue # <<>>
  /\ Cardinality(running) < max_workers
  /\ running' = running \cup {Head(queue)}
  /\ queue' = Tail(queue)
  /\ UNCHANGED <<pc, clock, fileVars, web, seen_items, updated_seen,
                 results, notifications, sendStatus, writes, payload,
                 historyVars, jar>>

\* the response arrives (setting a cookie or not), the parser runs, and
\* fetch_store returns (store, products)
WorkerReturn ==
  /\ pc = "fetch"
  /\ \E s \in running :
       /\ running' = running \ {s}
       /\ results' = [results EXCEPT ![s] = fetch_store(s, web[s])]
       /\ \E cookie \in BOOLEAN :
            jar' = IF cookie /\ s \in LiveStores /\ ~web[s].fail
                   THEN jar \cup {s} ELSE jar
  /\ UNCHANGED <<pc, clock, fileVars, web, seen_items, updated_seen,
                 notifications, sendStatus, writes, payload, historyVars,
                 queue>>

\* the with block ends once every work item has run
PoolJoin ==
  /\ pc = "fetch"
  /\ queue = <<>>
  /\ running = {}
  /\ pc' = "collect"
  /\ UNCHANGED <<clock, fileVars, web, seen_items, updated_seen,
                 results, notifications, sendStatus, writes, payload,
                 historyVars, poolVars>>

NextPool ==
  \/ StartPoolRun
  \/ WorkerTake
  \/ WorkerReturn
  \/ PoolJoin

SpecPool == Init /\ [][NextPool]_vars

(***************************************************************************)
(* Claims.                                                                 *)
(***************************************************************************)
NoteUid(n) == Uid(n.store, n.name)

\* the run is past the dedup loop and has not yet saved
AfterLoop == pc \in {"send", "post", "mark", "save"}

\* C1: no item in a run's notification list has a uid that was in the seen
\* set loaded at the start of the run, and none has a uid that an earlier
\* completed run saved.
C1_NeverNotifiedAgain ==
  AfterLoop =>
    \A i \in 1..Len(notifications) :
      /\ NoteUid(notifications[i]) \notin seen_items
      /\ NoteUid(notifications[i]) \notin saved

\* C2: a webhook POST is issued only if no timestamp is stored or the
\* cooldown has elapsed since the stored one; every run that issued a POST
\* and has ended left a timestamp of that POST or later in last_sent.txt;
\* and any two consecutive webhook POSTs are at least
\* DISCORD_COOLDOWN_SECONDS apart.
C2_PostsRateLimited ==
  /\ (pc = "post" =>
        \/ ~lastSentFile.exists
        \/ clock - ParseFloat(lastSentFile.text).value >= DISCORD_COOLDOWN_SECONDS)
  /\ (pc \in {"done", "aborted"} /\ payload # NoPayload) =>
       /\ lastSentFile.exists
       /\ ParseFloat(lastSentFile.text).ok
       /\ ParseFloat(lastSentFile.text).value >= posts[Len(posts)]
  /\ \A i \in 1..(Len(posts) - 1) :
       posts[i + 1] - posts[i] >= DISCORD_COOLDOWN_SECONDS

\* C3: when a run completes, every uid that was persisted in the seen-items
\* file when the run started is still persisted in it.
C3_AppendOnly ==
  pc = "done" => seen_items \subseteq load_seen_items(seenFile)

\* a completed run that found a non-empty seen-items file and added a uid
C3_Witness ==
  /\ pc = "done"
  /\ seen_items # {}
  /\ updated_seen # seen_items

\* C4: while the pool is active, no object is written by one worker and
\* read or written by another: no worker stores a cookie in SESSION.cookies
\* while another worker has used SESSION.
C4_NoSharedMutableState ==
  pc = "fetch" => \A w \in jar : SessionUsers \subseteq {w}

\* C5: at most five fetch_store calls are in progress at any moment, and
\* when the pool is done every one of the 15 stores has been fetched.
C5_AtMostFiveInProgress ==
  /\ Cardinality(running) <= 5
  /\ Cardinality(Stores) = 15
  /\ (pc = "collect" => queue = <<>> /\ running = {})

\* five calls in progress and work items still waiting
C5_Witness ==
  /\ Cardinality(running) = 5
  /\ Len(queue) > 0

\* C6: the seen-items file is written at most once per run, only after the
\* send step returned normally or was omitted, exactly once in a run that
\* completes, and not at all in a run whose send step raised.
C6_SaveAfterSend ==
  /\ writes <= 1
  /\ (writes = 1 => sendStatus \in {"sent", "suppressed", "omitted"})
  /\ (pc = "done" <=> writes = 1)
  /\ (sendStatus = "raised" => writes = 0 /\ pc = "aborted")

\* a run whose webhook POST went out and raised
C6_Witness ==
  /\ sendStatus = "raised"
  /\ payload # NoPayload
  /\ pc = "aborted"

\* C7: every product in the notification list has a name that contains a
\* sealed keyword, no ignore keyword and no out-of-stock phrase, ignoring
\* case.
C7_OnlyRelevantNotified ==
  \A i \in 1..Len(notifications) :
    LET n == Lower(notifications[i].name)
    IN /\ \E k \in SEALED_KEYWORDS : Contains(k, n)
       /\ \A k \in IGNORE_KEYWORDS : ~Contains(k, n)
       /\ \A x \in OutOfStockPhrases : ~Contains(x, n)

\* a product of a generic_parser store reached the notification list
C7_Witness ==
  /\ Len(notifications) = 1
  /\ notifications[1].store = "B&M"

\* C8: a completed run whose POST the cooldown suppressed has every newly
\* found uid in the persisted seen set, and no webhook POST includes an item
\* that such a run recorded.
C8_SuppressedNeverNotified ==
  /\ (pc = "done" /\ sendStatus = "suppressed") =>
       \A i \in 1..Len(notifications) :
         NoteUid(notifications[i]) \in load_seen_items(seenFile)
  /\ \A i \in 1..Len(payload.items) :
       NoteUid(payload.items[i]) \notin suppressed

\* what fetch_store would return had every failing store served a page
\* without products
AsIfEmpty ==
  [s \in Stores |->
     LET out == CallParser(s, web[s])
     IN IF out.raised THEN Returned(<<>>) ELSE out]

\* C9: a store whose fetch or parser raises gets an empty product list, no
\* run aborts because of it, and the notification list and the seen set are
\* what they would be had the failing stores returned no products.
C9_FailuresIsolated ==
  /\ pc \notin {"idle", "fetch"} =>
       \A s \in Stores :
         CallParser(s, web[s]).raised => results[s] = Returned(<<>>)
  /\ (pc = "aborted" => sendStatus = "raised")
  /\ (AfterLoop \/ pc = "done") =>
       /\ notifications = NotificationsFrom(1, AsIfEmpty, seen_items)
       /\ updated_seen = seen_items \cup UidsOf(notifications)

\* a completed run in which one store failed and another one's product was
\* notified
C9_Witness ==
  /\ pc = "done"
  /\ \E s \in Stores : web[s].fail
  /\ notifications # <<>>

\* C10: no uid appears twice in a run's notification list, so the total of
\* the summary embed is the number of distinct new uids.
C10_NoDuplicateUid ==
  /\ \A i, j \in 1..Len(notifications) :
       i # j => NoteUid(notifications[i]) # NoteUid(notifications[j])
  /\ Embeds(notifications).total = Cardinality(UidsOf(notifications))

====
